---- MODULE Spec2Model ----
(***************************************************************************)
(* Host side of gen2-deeplabv3_depth/main.py: the HostSync message         *)
(* synchronizer, the FPSHandler frame-rate tracker and the polling loop    *)
(* that feeds the three device output queues into the synchronizer.        *)
(*                                                                         *)
(* Timestamps are integers in milliseconds (the code compares              *)
(* datetime.timedelta values); wall-clock time is an integer tick count.   *)
(***************************************************************************)
EXTENDS Integers, Sequences, FiniteSets, TLC

\* ------------------------------------------------------------------ bounds

\* Messages the device delivers in one run.
MaxMsgs == 5

\* Distinct readings of time.time() in one run, after the first.
MaxClock == 2

\* Messages the device delivers to the polling loop in one run.
MaxLoopMsgs == 4

\* Capture timestamps of the messages delivered to the polling loop.
LoopTimeVals == {0, 20, 533}

\* Calls of next_iter made on a tracker that is exercised on its own.
MaxFrames == 4

\* Heights and widths, in pixels, of the frames given to crop_to_square.
MaxDim == 6

\* args.nn_shape: the side of the square tensor the decoders reshape to.
NnShape == 2

\* Capture timestamps (ms) a message may carry: equal stamps, pairs less than
\* 33 ms apart, a pair exactly 33 ms apart, a pair exactly 500 ms apart, pairs
\* more than 500 ms apart in both directions.
TimeVals == {0, 20, 33, 533, 1040}

\* ------------------------------------------------------------- constants

\* timedelta(milliseconds=33) in add_msg
SyncToleranceMs == 33

\* timedelta(milliseconds=500) in remove
RemoveThresholdMs == 500

\* The stream names the polling loop passes to add_msg.
Names == {"color", "depth", "nn"}

\* getOutputQueue(..., maxSize=4, blocking=False)
QueueMaxSize == 4

\* The keys the loop stores in frames.
FrameKeys == {"frame", "colored_frame", "depth", "cutout"}

\* ------------------------------------------------------------------ state

VARIABLES
    arrays,     \* HostSync.arrays: name -> list of messages, keys as created
    produced,   \* name -> number of message objects the device has produced
    call,       \* the last add_msg call: its arguments, locals and result
    order,      \* whether each stream's stamps have so far come in order
    handed,     \* messages returned in a triple: at least once, more than once;
                \* the number of calls that returned a triple
    fps,        \* the FPSHandler: timestamp, start, frame_cnt
    clock,      \* what time.time() returns now
    fpsOut,     \* the outcome of the last fps() call
    pc,         \* where the script is
    queues,     \* name -> the device output queue's content, oldest first
    msgs,       \* the loop's local msgs: False or the dict add_msg returned
    frames,     \* the loop's dict frames: key -> the triple it was made from
    shown,      \* what the last imshow displayed
    polled,     \* per iteration: the queues that reported data, the queues
                \* popped, the queues whose message completed a triple
    cams,       \* device.getConnectedCameras(), once the device was asked
    cropIn,     \* the shape of a frame given to crop_to_square
    cropOut,    \* what crop_to_square returned for it
    tensor,     \* a flat tensor of class indices given to the decoders
    decoded     \* what decode_deeplabv3p and get_multiplier returned for it

syncVars == <<arrays, call, order, handed>>

fpsVars == <<fps, clock, fpsOut>>

loopVars == <<pc, queues, msgs, frames, shown, polled, cams>>

pureVars == <<cropIn, cropOut, tensor, decoded>>

vars == <<arrays, produced, call, order, handed, fps, clock, fpsOut,
          pc, queues, msgs, frames, shown, polled, cams,
          cropIn, cropOut, tensor, decoded>>

\* ---------------------------------------------------------------- helpers

Abs(x) == IF x < 0 THEN -x ELSE x

\* A message object: its identity (the k-th object of its stream) and
\* msg.getTimestamp()
Msg(name, k, ts) == [id |-> <<name, k>>, ts |-> ts]

\* Message objects produced so far, over all streams.
Produced == produced["color"] + produced["depth"] + produced["nn"]

\* The values of a list or of a dict.
Range(f) == {f[x] : x \in DOMAIN f}

\* list.remove(obj): drops the first element equal to obj
ListRemove(arr, obj) ==
    LET k == CHOOSE i \in 1..Len(arr) :
                 /\ arr[i] = obj
                 /\ \A j \in 1..(i - 1) : arr[j] # obj
    IN  [i \in 1..(Len(arr) - 1) |-> IF i < k THEN arr[i] ELSE arr[i + 1]]

\* The tolerance test with the bound included.
InSync_Inclusive(t, ts) == Abs(t - ts) <= SyncToleranceMs

\* time_diff < timedelta(milliseconds=33)
InSync(t, ts) == Abs(t - ts) < SyncToleranceMs

\* The staleness test with the threshold included.
remove_Inclusive(t1, t2) == RemoveThresholdMs <= Abs(t1 - t2)

\* The staleness test with the comparison the wrong way round.
remove_Flipped(t1, t2) == RemoveThresholdMs > Abs(t1 - t2)

\* remove(t1, t2): timedelta(milliseconds=500) < abs(t1 - t2)
remove(t1, t2) == RemoveThresholdMs < Abs(t1 - t2)

\* The scan that looks for the best match: the entry in tolerance closest to
\* ts wins, the older one of two equally close.
FirstSynced_Closest(arr, ts) ==
    IF \E i \in 1..Len(arr) : InSync(arr[i].ts, ts)
    THEN CHOOSE i \in 1..Len(arr) :
             /\ InSync(arr[i].ts, ts)
             /\ \A j \in 1..Len(arr) :
                    \/ Abs(arr[j].ts - ts) > Abs(arr[i].ts - ts)
                    \/ (Abs(arr[j].ts - ts) = Abs(arr[i].ts - ts) /\ i <= j)
    ELSE 0

\* The scan without its break: the last entry in tolerance wins.
FirstSynced_NoBreak(arr, ts) ==
    IF \E i \in 1..Len(arr) : InSync(arr[i].ts, ts)
    THEN CHOOSE i \in 1..Len(arr) :
             /\ InSync(arr[i].ts, ts)
             /\ \A j \in (i + 1)..Len(arr) : ~InSync(arr[j].ts, ts)
    ELSE 0

\* The inner scan of one buffer: the first entry in tolerance, 0 when the loop
\* runs to the end without a break.
FirstSynced(arr, ts) ==
    IF \E i \in 1..Len(arr) : InSync(arr[i].ts, ts)
    THEN CHOOSE i \in 1..Len(arr) :
             /\ InSync(arr[i].ts, ts)
             /\ \A j \in 1..(i - 1) : ~InSync(arr[j].ts, ts)
    ELSE 0

\* The dict synced after the scan of all buffers.
Synced(arrs, ts) ==
    [n \in {m \in DOMAIN arrs : FirstSynced(arrs[m], ts) # 0}
        |-> arrs[n][FirstSynced(arrs[n], ts)]]

\* "for i, obj in enumerate(arr): if remove(...): arr.remove(obj) else: break"
\* The list iterator holds an index into the list it is shrinking: idx is the
\* 1-based position it reads next.
RECURSIVE RemoveOld(_, _, _)
RemoveOld(arr, idx, ts) ==
    IF idx > Len(arr)
    THEN arr
    ELSE IF remove(arr[idx].ts, ts)
         THEN RemoveOld(ListRemove(arr, arr[idx]), idx + 1, ts)
         ELSE arr

\* self.arrays after "if not name in self.arrays" and the append
Appended(arrs, name, msg) ==
    [n \in DOMAIN arrs \cup {name} |->
        IF n = name
        THEN (IF n \in DOMAIN arrs THEN arrs[n] ELSE <<>>) \o <<msg>>
        ELSE arrs[n]]

\* add_msg content with candidates from two streams.
add_msg_TwoSuffice(arrs, name, msg) ==
    LET pre    == Appended(arrs, name, msg)
        ts     == msg.ts
        synced == Synced(pre, ts)
        ok     == Cardinality(DOMAIN synced) >= 2
    IN  [arrays |-> IF ok
                    THEN [n \in DOMAIN pre |-> RemoveOld(pre[n], 1, ts)]
                    ELSE pre,
         pre    |-> pre,
         ts     |-> ts,
         synced |-> synced,
         ok     |-> ok]

\* add_msg with the removal of old messages outside the "if": it runs in
\* every call.
add_msg_AlwaysPrunes(arrs, name, msg) ==
    LET pre    == Appended(arrs, name, msg)
        ts     == msg.ts
        synced == Synced(pre, ts)
        ok     == Cardinality(DOMAIN synced) = 3
    IN  [arrays |-> [n \in DOMAIN pre |-> RemoveOld(pre[n], 1, ts)],
         pre    |-> pre,
         ts     |-> ts,
         synced |-> synced,
         ok     |-> ok]

\* The whole of add_msg: the buffers it leaves and what it returns.
add_msg(arrs, name, msg) ==
    LET pre    == Appended(arrs, name, msg)
        ts     == msg.ts
        synced == Synced(pre, ts)
        ok     == Cardinality(DOMAIN synced) = 3
    IN  [arrays |-> IF ok
                    THEN [n \in DOMAIN pre |-> RemoveOld(pre[n], 1, ts)]
                    ELSE pre,
         pre    |-> pre,
         ts     |-> ts,
         synced |-> synced,
         ok     |-> ok]

NoCall ==
    [made |-> FALSE, name |-> "color", msg |-> Msg("color", 0, 0), pre |-> <<>>,
     synced |-> <<>>, ok |-> FALSE]

\* ---------------------------------------------------------------- actions

\* msgs = False
NoMsgs == [ok |-> FALSE, synced |-> <<>>]

NoPolls == [has |-> {}, got |-> {}, found |-> {}]

InitScript ==
    /\ arrays = <<>>
    /\ produced = [n \in Names |-> 0]
    /\ call = NoCall
    /\ order = [last |-> [n \in Names |-> -1], nondecr |-> TRUE, strict |-> TRUE]
    /\ handed = [once |-> {}, twice |-> {}, triples |-> 0]
    /\ fps = [made |-> FALSE, timestamp |-> 0, start |-> 0, frame_cnt |-> 0]
    /\ clock = 0
    /\ fpsOut = [asked |-> FALSE, raised |-> FALSE, num |-> 0, den |-> 1]
    /\ pc = "connect"
    /\ queues = [n \in Names |-> <<>>]
    /\ msgs = NoMsgs
    /\ frames = <<>>
    /\ shown = [made |-> FALSE, frames |-> <<>>]
    /\ polled = NoPolls
    /\ cams = {}
    /\ cropOut = [made |-> FALSE, height |-> 0, width |-> 0, left |-> 0,
                  right |-> 0]
    /\ decoded = [made |-> FALSE, colors |-> <<>>, multiplier |-> <<>>]

\* The script before line 162: no frame cropped, no tensor decoded yet.
Init ==
    /\ InitScript
    /\ cropIn = [height |-> 1, width |-> 1]
    /\ tensor = <<>>

\* What one add_msg call does to the synchronizer and to the record of the call.
DoAddMsg(name, msg) ==
    LET r == add_msg(arrays, name, msg)
    IN  /\ arrays' = r.arrays
        /\ call' = [made |-> TRUE, name |-> name, msg |-> msg,
                    pre |-> r.pre, synced |-> r.synced, ok |-> r.ok]
        /\ order' = [last    |-> [order.last EXCEPT ![name] = msg.ts],
                     nondecr |-> order.nondecr /\ order.last[name] <= msg.ts,
                     strict  |-> order.strict /\ order.last[name] < msg.ts]
        /\ handed' = IF r.ok
                     THEN [once    |-> handed.once \cup Range(r.synced),
                           twice   |-> handed.twice
                                          \cup (handed.once \cap Range(r.synced)),
                           triples |-> handed.triples + 1]
                     ELSE handed

\* One call sync.add_msg(name, msg) with a fresh message stamped ts.
AddMsg(name, ts) ==
    /\ Produced < MaxMsgs
    /\ DoAddMsg(name, Msg(name, produced[name] + 1, ts))
    /\ produced' = [produced EXCEPT ![name] = @ + 1]
    /\ UNCHANGED <<fpsVars, loopVars, pureVars>>

SyncNext == \E name \in Names, ts \in TimeVals : AddMsg(name, ts)

SpecSync == Init /\ [][SyncNext]_vars

\* ------------------------------------------------------------- FPSHandler

\* What a call of time.time() can return when the last call returned c: the
\* same reading again, or a later one.
TimeReadings(c) == {t \in {c, c + 1} : t <= MaxClock}

\* FPSHandler.__init__: timestamp is read first, start second. The result is
\* the new tracker and the last clock reading.
FPSHandler(c) ==
    {[fps   |-> [made |-> TRUE, timestamp |-> t1, start |-> t2,
                 frame_cnt |-> 0],
      clock |-> t2] : <<t1, t2>> \in {p \in TimeReadings(c) \X (0..MaxClock) :
                                         p[2] \in TimeReadings(p[1])}}

\* next_iter without its count: only the timestamp is refreshed.
next_iter_NoCount(f, now) == [f EXCEPT !.timestamp = now]

\* FPSHandler.next_iter
next_iter(f, now) ==
    [f EXCEPT !.timestamp = now, !.frame_cnt = f.frame_cnt + 1]

\* FPSHandler.fps: frame_cnt / (timestamp - start), which raises
\* ZeroDivisionError when the two stamps are equal. The quotient is kept as
\* numerator and denominator.
fps_call(f) ==
    [asked  |-> TRUE,
     raised |-> f.timestamp - f.start = 0,
     num    |-> f.frame_cnt,
     den    |-> f.timestamp - f.start]

FpsConstruct ==
    /\ ~fps.made
    /\ \E r \in FPSHandler(clock) : fps' = r.fps /\ clock' = r.clock
    /\ UNCHANGED <<fpsOut, syncVars, produced, loopVars, pureVars>>

FpsNextIter ==
    /\ fps.made
    /\ fps.frame_cnt < MaxFrames
    /\ \E now \in TimeReadings(clock) :
           fps' = next_iter(fps, now) /\ clock' = now
    /\ UNCHANGED <<fpsOut, syncVars, produced, loopVars, pureVars>>

FpsQuery ==
    /\ fps.made
    /\ fpsOut' = fps_call(fps)
    /\ UNCHANGED <<fps, clock, syncVars, produced, loopVars, pureVars>>

FpsNext ==
    \/ FpsConstruct
    \/ FpsNextIter
    \/ FpsQuery

SpecFps == Init /\ [][FpsNext]_vars

\* ------------------------------------------------------- the polling loop

\* The script positions at which the pipeline runs on the device.
Running == {"poll_color", "poll_depth", "poll_nn", "process", "display",
            "waitkey"}

\* The device puts a message in a non-blocking output queue: a full queue
\* drops its oldest message.
Push(q, msg) ==
    IF Len(q) < QueueMaxSize THEN Append(q, msg) ELSE Append(Tail(q), msg)

\* What device.getConnectedCameras() can return: the colour camera, with or
\* without each of the two mono cameras.
CameraSets == {{"RGB"} \cup s : s \in SUBSET {"LEFT", "RIGHT"}}

\* Line 164
depth_enabled(connected) == "LEFT" \in connected /\ "RIGHT" \in connected

\* The start-up without the capability check: the pipeline is started whatever
\* cameras are connected.
Connect_NoCheck ==
    /\ pc = "connect"
    /\ \E connected \in CameraSets :
           /\ cams' = connected
           /\ pc' = "start"
    /\ UNCHANGED <<queues, msgs, frames, shown, polled, syncVars, produced,
                   fpsVars, pureVars>>

\* Lines 162-166: connect and look for the two mono cameras.
Connect ==
    /\ pc = "connect"
    /\ \E connected \in CameraSets :
           /\ cams' = connected
           /\ pc' = IF depth_enabled(connected) THEN "start" ELSE "aborted"
    /\ UNCHANGED <<queues, msgs, frames, shown, polled, syncVars, produced,
                   fpsVars, pureVars>>

\* Lines 167-184: start the pipeline, open the queues, build the tracker and
\* the synchronizer, enter the loop.
Start ==
    /\ pc = "start"
    /\ \E r \in FPSHandler(clock) : fps' = r.fps /\ clock' = r.clock
    /\ arrays' = <<>>
    /\ frames' = <<>>
    /\ msgs' = NoMsgs
    /\ polled' = NoPolls
    /\ pc' = "poll_color"
    /\ UNCHANGED <<queues, shown, cams, call, order, handed, produced, fpsOut,
                   pureVars>>

\* The device delivers a message to an output queue.
Deliver(name, ts) ==
    /\ pc \in Running
    /\ Produced < MaxLoopMsgs
    /\ queues' = [queues EXCEPT
                     ![name] = Push(@, Msg(name, produced[name] + 1, ts))]
    /\ produced' = [produced EXCEPT ![name] = @ + 1]
    /\ UNCHANGED <<pc, msgs, frames, shown, polled, cams, syncVars, fpsVars,
                   pureVars>>

\* The poll without its "if q.has()": q.get() is called unasked, and waits
\* while the queue is empty.
Poll_NoHasCheck(name, here, next) ==
    /\ pc = here
    /\ pc' = next
    /\ IF msgs.ok
       THEN UNCHANGED <<queues, msgs, polled, syncVars>>
       ELSE /\ queues[name] # <<>>
            /\ LET r == add_msg(arrays, name, Head(queues[name]))
               IN  /\ polled' = [has   |-> polled.has,
                                 got   |-> polled.got \cup {name},
                                 found |-> IF r.ok
                                           THEN polled.found \cup {name}
                                           ELSE polled.found]
                   /\ queues' = [queues EXCEPT ![name] = Tail(@)]
                   /\ DoAddMsg(name, Head(queues[name]))
                   /\ msgs' = IF r.ok
                              THEN [ok |-> TRUE, synced |-> r.synced]
                              ELSE NoMsgs
    /\ UNCHANGED <<frames, shown, cams, produced, fpsVars, pureVars>>

\* The poll written "sync.add_msg(name, q.get()) or msgs": the queue is popped
\* and its message ingested whatever msgs holds.
Poll_AlwaysPops(name, here, next) ==
    /\ pc = here
    /\ pc' = next
    /\ IF queues[name] # <<>>
       THEN LET r == add_msg(arrays, name, Head(queues[name]))
            IN  /\ polled' = [has   |-> polled.has \cup {name},
                              got   |-> polled.got \cup {name},
                              found |-> IF r.ok THEN polled.found \cup {name}
                                        ELSE polled.found]
                /\ queues' = [queues EXCEPT ![name] = Tail(@)]
                /\ DoAddMsg(name, Head(queues[name]))
                /\ msgs' = IF msgs.ok THEN msgs
                           ELSE IF r.ok THEN [ok |-> TRUE, synced |-> r.synced]
                           ELSE NoMsgs
       ELSE UNCHANGED <<queues, msgs, polled, syncVars>>
    /\ UNCHANGED <<frames, shown, cams, produced, fpsVars, pureVars>>

\* "if q.has(): msgs = msgs or sync.add_msg(name, q.get())": the right operand
\* of "or", the get inside it included, is evaluated only when msgs is False.
Poll(name, here, next) ==
    /\ pc = here
    /\ pc' = next
    /\ IF queues[name] # <<>>
       THEN IF msgs.ok
            THEN /\ polled' = [polled EXCEPT !.has = @ \cup {name}]
                 /\ UNCHANGED <<queues, msgs, syncVars>>
            ELSE LET r == add_msg(arrays, name, Head(queues[name]))
                 IN  /\ polled' = [has   |-> polled.has \cup {name},
                                   got   |-> polled.got \cup {name},
                                   found |-> IF r.ok
                                             THEN polled.found \cup {name}
                                             ELSE polled.found]
                     /\ queues' = [queues EXCEPT ![name] = Tail(@)]
                     /\ DoAddMsg(name, Head(queues[name]))
                     /\ msgs' = IF r.ok
                                THEN [ok |-> TRUE, synced |-> r.synced]
                                ELSE NoMsgs
       ELSE UNCHANGED <<queues, msgs, polled, syncVars>>
    /\ UNCHANGED <<frames, shown, cams, produced, fpsVars, pureVars>>

PollColor == Poll("color", "poll_color", "poll_depth")

PollDepth == Poll("depth", "poll_depth", "poll_nn")

PollNn == Poll("nn", "poll_nn", "process")

\* The processing step with the failure of fps() caught and the loop going on:
\* frames['frame'] is stored, the other three artifacts are not.
Process_SwallowsError ==
    /\ pc = "process"
    /\ IF msgs.ok
       THEN \E now \in TimeReadings(clock) :
            LET f == next_iter(fps, now)
                o == fps_call(f)
            IN  /\ fps' = f
                /\ clock' = now
                /\ fpsOut' = o
                /\ pc' = "display"
                /\ frames' = IF o.raised
                             THEN [k \in DOMAIN frames \cup {"frame"} |->
                                      IF k = "frame" THEN msgs.synced
                                      ELSE frames[k]]
                             ELSE [k \in FrameKeys |-> msgs.synced]
       ELSE /\ pc' = "display"
            /\ UNCHANGED <<fps, clock, fpsOut, frames>>
    /\ UNCHANGED <<queues, msgs, shown, polled, cams, syncVars, produced,
                   pureVars>>

\* Lines 192-222: with a triple, count the iteration and build the four
\* frames; fps() is called after frames['frame'] is stored and before the
\* other three are.
Process ==
    /\ pc = "process"
    /\ IF msgs.ok
       THEN \E now \in TimeReadings(clock) :
            LET f == next_iter(fps, now)
                o == fps_call(f)
            IN  /\ fps' = f
                /\ clock' = now
                /\ fpsOut' = o
                /\ IF o.raised
                   THEN /\ frames' = [k \in DOMAIN frames \cup {"frame"} |->
                                         IF k = "frame" THEN msgs.synced
                                         ELSE frames[k]]
                        /\ pc' = "crashed"
                   ELSE /\ frames' = [k \in FrameKeys |-> msgs.synced]
                        /\ pc' = "display"
       ELSE /\ pc' = "display"
            /\ UNCHANGED <<fps, clock, fpsOut, frames>>
    /\ UNCHANGED <<queues, msgs, shown, polled, cams, syncVars, produced,
                   pureVars>>

\* Lines 225-227
Display ==
    /\ pc = "display"
    /\ pc' = "waitkey"
    /\ shown' = IF Cardinality(DOMAIN frames) = 4
                THEN [made |-> TRUE, frames |-> frames]
                ELSE shown
    /\ UNCHANGED <<queues, msgs, frames, polled, cams, syncVars, produced,
                   fpsVars, pureVars>>

\* Lines 229-230, then line 184 of the next iteration.
WaitKey ==
    /\ pc = "waitkey"
    /\ \E quit \in BOOLEAN :
           IF quit
           THEN pc' = "done" /\ UNCHANGED <<msgs, polled>>
           ELSE pc' = "poll_color" /\ msgs' = NoMsgs /\ polled' = NoPolls
    /\ UNCHANGED <<queues, frames, shown, cams, syncVars, produced, fpsVars,
                   pureVars>>

LoopNext ==
    \/ Connect
    \/ Start
    \/ \E name \in Names, ts \in LoopTimeVals : Deliver(name, ts)
    \/ PollColor
    \/ PollDepth
    \/ PollNn
    \/ Process
    \/ Display
    \/ WaitKey

Spec == Init /\ [][LoopNext]_vars

\* ------------------------------------- crop_to_square and the two decoders

\* int(x / 2): the quotient rounded up.
TruncDiv2_RoundsUp(x) == (x + 1) \div 2

\* int(x / 2): true division, then truncation towards zero.
TruncDiv2(x) == IF x >= 0 THEN x \div 2 ELSE -((-x) \div 2)

\* One bound of a slice of an axis of length len: a negative index counts
\* from the end, and the result is clipped to the axis.
SliceIndex(i, len) ==
    IF i < 0
    THEN (IF i + len < 0 THEN 0 ELSE i + len)
    ELSE (IF i > len THEN len ELSE i)

\* axis[lo:hi] on an axis of length len: where it starts and how many
\* elements it keeps.
Slice(lo, hi, len) ==
    LET a == SliceIndex(lo, len)
        b == SliceIndex(hi, len)
    IN  [start |-> a, count |-> IF b > a THEN b - a ELSE 0]

\* crop_to_square: the shape of frame[0:height, delta:width-delta], with the
\* number of columns cut off on each side.
crop_to_square(frame) ==
    LET height == frame.height
        width  == frame.width
        delta  == TruncDiv2(width - height)
        rows   == Slice(0, height, height)
        cols   == Slice(delta, width - delta, width)
    IN  [height |-> rows.count,
         width  |-> cols.count,
         left   |-> cols.start,
         right  |-> width - (cols.start + cols.count)]

\* The palette with its two rows exchanged.
class_colors_Swapped == <<<<0, 255, 0>>, <<0, 0, 0>>>>

\* class_colors in decode_deeplabv3p: row k + 1 is the colour of class k.
class_colors == <<<<0, 0, 0>>, <<0, 255, 0>>>>

\* class_binary in get_multiplier
class_binary == <<<<0>>, <<1>>>>

\* output_tensor.reshape(n, n), row-major
Reshape(flat, n) == [i \in 1..n |-> [j \in 1..n |-> flat[(i - 1) * n + j]]]

\* np.take(table, output, axis=0): every index replaced by its row of table
Take(table, output) ==
    [i \in DOMAIN output |->
        [j \in DOMAIN output[i] |-> table[output[i][j] + 1]]]

decode_deeplabv3p(output_tensor) ==
    Take(class_colors, Reshape(output_tensor, NnShape))

get_multiplier(output_tensor) ==
    Take(class_binary, Reshape(output_tensor, NnShape))

\* The frame shapes and the tensors the functions are applied to.
Shapes == [height : 1..MaxDim, width : 1..MaxDim]

Tensors == [1..(NnShape * NnShape) -> {0, 1}]

InitPure ==
    /\ InitScript
    /\ cropIn \in Shapes
    /\ tensor \in Tensors

ApplyCrop ==
    /\ ~cropOut.made
    /\ LET r == crop_to_square(cropIn)
       IN  cropOut' = [made |-> TRUE, height |-> r.height, width |-> r.width,
                       left |-> r.left, right |-> r.right]
    /\ UNCHANGED <<cropIn, tensor, decoded, syncVars, produced, fpsVars,
                   loopVars>>

ApplyDecode ==
    /\ ~decoded.made
    /\ decoded' = [made       |-> TRUE,
                   colors     |-> decode_deeplabv3p(tensor),
                   multiplier |-> get_multiplier(tensor)]
    /\ UNCHANGED <<cropIn, cropOut, tensor, syncVars, produced, fpsVars,
                   loopVars>>

PureNext ==
    \/ ApplyCrop
    \/ ApplyDecode

SpecPure == InitPure /\ [][PureNext]_vars

\* ------------------------------------------------- the synchronizer: claims

\* The reference timestamp of the last call.
CallTs == call.msg.ts

\* The entries the last call took out of buffer n.
Pruned(n) == Range(call.pre[n]) \ Range(arrays[n])

\* Two timestamps strictly less than 33 ms apart.
Within33(t, u) == Abs(t - u) < 33

\* Three messages, one per stream, pairwise strictly within 33 ms.
MutuallyInSync(c, d, m) ==
    /\ Within33(c.ts, d.ts)
    /\ Within33(c.ts, m.ts)
    /\ Within33(d.ts, m.ts)

\* Buffer n, as the last call scanned it, holds x with no entry before x that
\* is within the tolerance of the call's timestamp.
IsFirstInSync(n, x) ==
    \E i \in 1..Len(call.pre[n]) :
        /\ call.pre[n][i] = x
        /\ \A j \in 1..(i - 1) : ~Within33(call.pre[n][j].ts, CallTs)

\* The triples of buffered messages that the last call completed: one message
\* per stream, pairwise in tolerance, one of them the message just inserted.
CompletedTriples ==
    IF call.made /\ DOMAIN call.pre = Names
    THEN {t \in Range(call.pre["color"]) \X Range(call.pre["depth"])
                    \X Range(call.pre["nn"]) :
              /\ call.msg \in {t[1], t[2], t[3]}
              /\ MutuallyInSync(t[1], t[2], t[3])}
    ELSE {}

AsDict(t) == [n \in Names |->
                 IF n = "color" THEN t[1] ELSE IF n = "depth" THEN t[2] ELSE t[3]]

\* C1: whenever add_msg returns a triple, every message in it has a timestamp
\* strictly less than 33 ms from the timestamp of the message just inserted.
C1_TripleWithinTolerance ==
    call.ok => \A n \in DOMAIN call.synced :
                   Abs(call.synced[n].ts - CallTs) < 33

\* C1 witness: a triple was returned that holds a message stamped differently
\* from the inserted one, while a buffer held an entry exactly 33 ms away.
C1_Witness ==
    /\ call.ok
    /\ \E n \in Names : call.synced[n].ts # CallTs
    /\ \E n \in Names : \E x \in Range(call.pre[n]) : Abs(x.ts - CallTs) = 33

\* C2 as claimed: whatever the buffers held before, the call that inserts the
\* third of three messages pairwise within 33 ms returns exactly those three.
C2_AnyPriorState ==
    \A t \in CompletedTriples : call.ok /\ call.synced = AsDict(t)

\* C2 amended: the call inserting the third message returns a triple, and the
\* triple is those three messages exactly when none of them has an entry
\* before it in its buffer that is within 33 ms of the call's timestamp.
C2_FirstInToleranceTriple ==
    \A t \in CompletedTriples :
        /\ call.ok
        /\ (call.synced = AsDict(t)) <=>
               \A n \in Names : IsFirstInSync(n, AsDict(t)[n])

\* C2 witness: the third message arrived in buffers that already held other
\* entries, and the triple returned is the three messages.
C2_Witness ==
    /\ \E t \in CompletedTriples :
           /\ call.synced = AsDict(t)
           /\ \E n \in Names : t[1].ts # AsDict(t)[n].ts
    /\ \E n \in Names : Len(call.pre[n]) > 1
    /\ Cardinality(CompletedTriples) > 1

\* C3: the pruning step of a call never removes a buffered message whose
\* timestamp is within 500 ms (inclusive) of the call's timestamp.
C3_NoPrematurePruning ==
    call.made => \A n \in DOMAIN call.pre : \A x \in Pruned(n) :
                     ~(Abs(x.ts - CallTs) <= 500)

\* C3 witness: a call pruned something from a buffer and kept, in the same
\* buffer, an entry exactly 500 ms from its timestamp.
C3_Witness ==
    /\ call.ok
    /\ \E n \in Names :
           /\ Pruned(n) # {}
           /\ \E x \in Range(arrays[n]) : Abs(x.ts - CallTs) = 500

\* C4 as claimed: after a call that returns a triple, the oldest entry left in
\* each non-empty buffer is within 500 ms of the call's timestamp.
C4_LeadingStaleRunRemoved ==
    call.ok => \A n \in DOMAIN arrays :
                   arrays[n] # <<>> => Abs(arrays[n][1].ts - CallTs) <= 500

\* C5 as claimed: the entries a successful call removes from a buffer are a
\* prefix of it; what is left is the rest of the buffer, in arrival order.
C5_PrunedIsPrefix ==
    call.ok => \A n \in DOMAIN arrays :
                   \E k \in 0..Len(call.pre[n]) :
                       arrays[n] = SubSeq(call.pre[n], k + 1, Len(call.pre[n]))

\* C6 as claimed: when every stream's timestamps have come in non-decreasing
\* order, a successful call never removes a message stamped later than its
\* reference timestamp.
C6_InFlightNeverPruned ==
    (call.ok /\ order.nondecr) =>
        \A n \in DOMAIN call.pre : \A x \in Pruned(n) : ~(x.ts > CallTs)

\* C7 as claimed: a message returned in a triple is held in no buffer any
\* more, and no message is returned in more than one triple.
C7_ReturnedLeavesBuffers ==
    /\ call.ok => \A x \in Range(call.synced) : \A n \in DOMAIN arrays :
                      x \notin Range(arrays[n])
    /\ handed.twice = {}

\* C7 amended: a call that returns a triple leaves every message of the triple
\* in the buffer of its stream.
C7_ReturnedStaysBuffered ==
    call.ok => \A n \in DOMAIN call.synced :
                   call.synced[n] \in Range(arrays[n])

\* C7 witness: a call returned a triple holding a message that an earlier
\* triple held already, and pruned other entries.
C7_Witness ==
    /\ call.ok
    /\ Range(call.synced) \cap handed.twice # {}
    /\ \E n \in Names : Pruned(n) # {}

\* The most stamps of TimeVals that lie within 500 ms of one reference stamp:
\* what a buffer can hold, one message per stamp, when nothing in it is stale.
WindowCap ==
    LET InWindow(t) == {u \in TimeVals : Abs(u - t) <= 500}
    IN  CHOOSE c \in 0..Cardinality(TimeVals) :
            /\ \E t \in TimeVals : Cardinality(InWindow(t)) = c
            /\ \A t \in TimeVals : Cardinality(InWindow(t)) <= c

\* C9 as claimed: while every stream's timestamps strictly advance, no buffer
\* grows beyond what the 500 ms window admits, triple or no triple.
C9_BufferLengthBounded ==
    order.strict => \A n \in DOMAIN arrays : Len(arrays[n]) <= WindowCap

\* ------------------------------------------------- the polling loop: claims

\* The place of a queue in the order the loop polls them.
PollPos(n) == IF n = "color" THEN 1 ELSE IF n = "depth" THEN 2 ELSE 3

\* C8 as claimed: in every iteration each queue that reported data has been
\* popped and its message ingested, whatever the earlier queues produced.
C8_EveryAvailableQueuePopped == polled.has \subseteq polled.got

\* C8 amended: a queue that reports data is popped and its message ingested in
\* that iteration exactly when no queue polled before it in the iteration has
\* completed a triple; a queue passed over still holds its message.
C8_PoppedUnlessTripleFound ==
    /\ \A n \in polled.has :
           (n \in polled.got) <=>
               ~(\E m \in polled.found : PollPos(m) < PollPos(n))
    /\ \A n \in polled.has \ polled.got : queues[n] # <<>>
    /\ polled.got \subseteq polled.has

\* C8 witness: a queue reported data after an earlier queue's message had
\* completed a triple, and was not popped.
C8_Witness ==
    /\ polled.has \ polled.got # {}
    /\ polled.found # {}
    /\ msgs.ok

\* ----------------------------------------------------- FPSHandler: claims

\* C10 as claimed: every fps() query returns without raising, and returns a
\* value that is not negative.
C10_FpsNeverFails ==
    fpsOut.asked => (~fpsOut.raised /\ fpsOut.num * fpsOut.den >= 0)

\* The four artifacts of a frame set all made from the one triple t.
AllFrom(fs, t) == DOMAIN fs = FrameKeys /\ \A k \in FrameKeys : fs[k] = t

C12_AbortBeforePipeline ==
    (pc # "connect" /\ ~({"LEFT", "RIGHT"} \subseteq cams)) =>
        /\ pc = "aborted"
        /\ ~fps.made
        /\ ~call.made
        /\ ~shown.made
        /\ polled = NoPolls
        /\ Produced = 0
        /\ arrays = <<>>
        /\ frames = <<>>

\* C12 witness: the device reported a right mono camera but no left one, and
\* the script has ended.
C12_Witness ==
    /\ pc = "aborted"
    /\ cams = {"RGB", "RIGHT"}

\* ------------------------------------------ crop and decoders: claims

\* C13 as claimed: a frame at least as wide as high comes back square, with
\* its height kept and as many columns cut on the left as on the right, and a
\* square frame comes back as it was.
C13_CropGivesSquare ==
    (cropOut.made /\ cropIn.width >= cropIn.height) =>
        /\ cropOut.width = cropOut.height
        /\ cropOut.height = cropIn.height
        /\ cropOut.left = cropOut.right
        /\ cropIn.width = cropIn.height =>
               (cropOut.width = cropIn.width /\ cropOut.left = 0)

\* C13 amended: the height is kept, (width - height) div 2 columns are cut on
\* each side, so the result is square when width - height is even and one
\* column wider than high when it is odd; a square frame comes back as it was.
C13_CropSymmetric ==
    (cropOut.made /\ cropIn.width >= cropIn.height) =>
        LET d == cropIn.width - cropIn.height
        IN  /\ cropOut.height = cropIn.height
            /\ cropOut.left = cropOut.right
            /\ cropOut.left = d \div 2
            /\ cropOut.width = cropIn.width - cropOut.left - cropOut.right
            /\ d % 2 = 0 => cropOut.width = cropOut.height
            /\ d % 2 = 1 => cropOut.width = cropOut.height + 1
            /\ d = 0 => (cropOut.width = cropIn.width /\ cropOut.left = 0)

\* C13 witness: a frame three or more columns wider than high, by an odd
\* number, has been cropped.
C13_Witness ==
    /\ cropOut.made
    /\ cropIn.width - cropIn.height >= 3
    /\ (cropIn.width - cropIn.height) % 2 = 1
    /\ cropOut.left >= 1

\* C14: on a tensor of class indices 0 and 1 both decoders keep the n x n
\* shape and map each element by itself: class 0 to (0,0,0) and to 0, class 1
\* to (0,255,0) and to 1.
C14_DecodersMapEachClass ==
    decoded.made =>
        /\ DOMAIN decoded.colors = 1..NnShape
        /\ DOMAIN decoded.multiplier = 1..NnShape
        /\ \A i \in 1..NnShape :
               /\ DOMAIN decoded.colors[i] = 1..NnShape
               /\ DOMAIN decoded.multiplier[i] = 1..NnShape
               /\ \A j \in 1..NnShape :
                      LET class == tensor[(i - 1) * NnShape + j]
                      IN  /\ decoded.colors[i][j] =
                                 IF class = 0 THEN <<0, 0, 0>> ELSE <<0, 255, 0>>
                          /\ decoded.multiplier[i][j] =
                                 IF class = 0 THEN <<0>> ELSE <<1>>

\* C14 witness: a tensor holding both classes, differently in its two
\* triangles, has been decoded.
C14_Witness ==
    /\ decoded.made
    /\ tensor[2] = 1
    /\ tensor[NnShape + 1] = 0
    /\ decoded.colors[1][2] = <<0, 255, 0>>

\* --------------------------------------- the synchronizer: behaviour claims

\* Buffer n, as the last call scanned it, holds an entry strictly within 33 ms
\* of the call's timestamp.
HasCandidate(n) ==
    /\ n \in DOMAIN call.pre
    /\ \E x \in Range(call.pre[n]) : Within33(x.ts, CallTs)

C17_NoMatchOnlyAppends ==
    [][(call' # call /\ ~call'.ok) =>
          /\ DOMAIN arrays' = DOMAIN arrays \cup {call'.name}
          /\ \A n \in DOMAIN arrays' :
                 arrays'[n] =
                     IF n = call'.name
                     THEN (IF n \in DOMAIN arrays THEN arrays[n] ELSE <<>>)
                              \o <<call'.msg>>
                     ELSE arrays[n]]_vars

\* C17 witness: a call returned no-match while the oldest entry of a buffer
\* was more than 500 ms from its timestamp, and that entry is still there.
C17_Witness ==
    /\ call.made
    /\ ~call.ok
    /\ \E n \in DOMAIN arrays :
           /\ Len(arrays[n]) > 1
           /\ Abs(arrays[n][1].ts - CallTs) > 500

\* --------------------------------------- the polling loop: behaviour claims

\* The script position at which queue n is polled.
PollPc(n) ==
    IF n = "color" THEN "poll_color"
    ELSE IF n = "depth" THEN "poll_depth" ELSE "poll_nn"

\* A step that pops queue n: the queue loses its oldest message and gains none.
Pops(n) == queues[n] # <<>> /\ queues'[n] = Tail(queues[n])

\* C18: a queue is popped only in the poll of that queue, in which has() was
\* called on it first and reported data; a queue not checked in the iteration
\* so far, or checked and found empty, is not popped.
C18_PopOnlyAfterHas ==
    [][\A n \in Names :
           Pops(n) =>
               /\ pc = PollPc(n)
               /\ n \notin polled.got
               /\ n \in polled'.has
               /\ n \in polled'.got]_vars

\* C18 witness: all three polls of an iteration are done; a queue that
\* reported data was popped, another reported none and was left alone.
C18_Witness ==
    /\ pc = "process"
    /\ polled.got # {}
    /\ polled.got = polled.has
    /\ polled.has # Names

\* A triple returned in this iteration that line 193 has not counted yet.
PendingTriple ==
    IF pc \in {"poll_depth", "poll_nn", "process"} /\ msgs.ok THEN 1 ELSE 0

====
